---- MODULE Spec2Model ----
(***************************************************************************)
(* State-machine model of the context-aware extraction core                *)
(* (src/src/core/mcms/ContextManager.py).                                  *)
(*                                                                         *)
(* Python values are modelled as follows.                                  *)
(*   - a dict is a function whose DOMAIN is the set of keys present;       *)
(*     the empty dict is the function with empty domain (falsy in Python). *)
(*   - a list that the code mutates in place (the focus_entities list) is  *)
(*     an object on `heap`; a dict holds its address, so that a shallow    *)
(*     dict.copy() shares the list exactly as Python does.                 *)
(*   - a relevance score in [0,1] is an integer in 0..Scale.               *)
(*   - datetime.now() is a reading of the system clock, which can be set   *)
(*     back: a reading may be earlier than the one before it.              *)
(***************************************************************************)
EXTENDS Integers, Sequences, FiniteSets, TLC

VARIABLES
    graph,                   \* self.graph (held by reference, never written)
    current_context,         \* self.current_context
    heap,                    \* the list objects reachable from contexts
    context_history,         \* self.context_history
    entity_relevance_cache,  \* self.entity_relevance_cache
    last_context_change,     \* self.last_context_change
    clock,                   \* the latest value datetime.now() has returned
    call,                    \* the public method called last, with its arguments
    result,                  \* what that call returned: [type, value]
    calls,                   \* number of public calls made since the initial state
    activated_at,            \* clock reading at which the current context became current
    replacements,            \* number of times a non-empty current context was replaced
    acl_store,               \* SecurityProvider: self.acl_store
    acl_file                 \* SecurityProvider: the file at self.acl_store_path

vars == <<graph, current_context, heap, context_history, entity_relevance_cache,
          last_context_change, clock, call, result, calls, activated_at,
          replacements, acl_store, acl_file>>

(***************************************************************************)
(* Bounds of the exploration.                                              *)
(***************************************************************************)
MaxTime == 1        \* clock readings are 0..MaxTime
MaxCalls == 3       \* public calls explored after construction

(***************************************************************************)
(* Generic helpers.                                                        *)
(***************************************************************************)
EmptyDict == <<>>

\* {k: v}
Dict1(k, v) == [x \in {k} |-> v]

\* A dict in its one representation: the empty dict is always EmptyDict.
Dict(f) == IF DOMAIN f = {} THEN EmptyDict ELSE f

\* The dict g updated with the entries of f (dict.update): f wins on a shared key.
Updated(g, f) ==
    Dict([k \in DOMAIN f \cup DOMAIN g |-> IF k \in DOMAIN f THEN f[k] ELSE g[k]])

Range(s) == {s[i] : i \in DOMAIN s}

Min2(a, b) == IF a <= b THEN a ELSE b

Max2(a, b) == IF a >= b THEN a ELSE b

RECURSIVE SumSeq(_)
SumSeq(s) == IF s = <<>> THEN 0 ELSE Head(s) + SumSeq(Tail(s))

\* Number of occurrences of x in the list s (list.count).
Count(s, x) == Cardinality({i \in DOMAIN s : s[i] = x})

\* s[:n] of Python, for any integer n.
Slice(s, n) ==
    IF n >= 0 THEN SubSeq(s, 1, Min2(n, Len(s)))
    ELSE SubSeq(s, 1, Max2(Len(s) + n, 0))

\* The list s without repeats, first occurrences kept in order; `seen` are
\* the values already met.
RECURSIVE FirstOccurrences(_, _)
FirstOccurrences(s, seen) ==
    IF s = <<>> THEN <<>>
    ELSE IF Head(s) \in seen THEN FirstOccurrences(Tail(s), seen)
    ELSE <<Head(s)>> \o FirstOccurrences(Tail(s), seen \cup {Head(s)})

\* list.remove(x): the list without the first occurrence of x.
RemoveFirst(s, x) ==
    LET i == CHOOSE k \in DOMAIN s : s[k] = x /\ \A j \in 1..(k - 1) : s[j] # x
    IN  SubSeq(s, 1, i - 1) \o SubSeq(s, i + 1, Len(s))

(***************************************************************************)
(* The graph store: a directed multigraph.  Nodes and relationships are    *)
(* kept in insertion order; a relationship is                              *)
(* <<source, target, key, relationship type>>.                             *)
(***************************************************************************)
Ids == {"person1", "task3", "software2", "ghost"}

\* person1 is tied to task3 by two parallel relationships, task3 refers to
\* itself and uses software2; nothing leaves software2.
SampleGraph ==
    [nodes |-> <<"person1", "task3", "software2">>,
     edges |-> << <<"person1", "task3", 0, "assigned_to">>,
                  <<"person1", "task3", 1, "created">>,
                  <<"task3", "task3", 0, "related_to">>,
                  <<"task3", "software2", 0, "uses">> >>]

Graphs == {SampleGraph}

EmptyGraph == [nodes |-> <<>>, edges |-> <<>>]

NodeSet(g) == Range(g.nodes)

EdgeSet(g) == Range(g.edges)

\* Variant: every id is taken to be in the graph.
has_node_always(g, id) == TRUE

has_node(g, id) == id \in NodeSet(g)

has_edge(g, u, v) == \E e \in EdgeSet(g) : e[1] = u /\ e[2] = v

successors(g, n) == {e[2] : e \in {x \in EdgeSet(g) : x[1] = n}}

predecessors(g, n) == {e[1] : e \in {x \in EdgeSet(g) : x[2] = n}}

\* Node attributes held by the graph store.
EntityTypeOf(id) ==
    CASE id = "person1" -> "person"
      [] id = "task3" -> "task"
      [] id = "software2" -> "software"
      [] OTHER -> "none"

EntityWords(id) ==
    CASE id = "person1" -> {"alice"}
      [] id = "task3" -> {"review", "code"}
      [] id = "software2" -> {"code"}
      [] OTHER -> {}

\* Last-updated timestamp of the entity; -1 when it carries none.
EntityUpdated(id) == IF id = "task3" THEN 1 ELSE -1

(***************************************************************************)
(* Contexts.  A context is a dict over the recognised keys; the value of   *)
(* "focus_entities" is the address of a list object on the heap.           *)
(***************************************************************************)
\* `if self.current_context:` -- a dict is truthy iff it has a key.
ContextActive(ctx) == DOMAIN ctx # {}

HasFocusList(ctx) == "focus_entities" \in DOMAIN ctx

\* The focus list a context refers to, as a value (the empty list if none).
FocusOf(ctx, h) == IF HasFocusList(ctx) THEN h[ctx["focus_entities"]] ELSE <<>>

\* A context with its focus list read out of the heap: what an observer
\* of the dict sees.
Deref(ctx, h) ==
    [k \in DOMAIN ctx |-> IF k = "focus_entities" THEN h[ctx[k]] ELSE ctx[k]]

\* The caller builds a dict literal: its focus list is a new list object.
NewDict(h, v) ==
    IF "focus_entities" \in DOMAIN v
    THEN [heap |-> Append(h, v["focus_entities"]),
          dict |-> [k \in DOMAIN v |->
                       IF k = "focus_entities" THEN Len(h) + 1 ELSE v[k]]]
    ELSE [heap |-> h, dict |-> v]

(***************************************************************************)
(* Relevance scorer: the arithmetic mean of the factors that have a signal *)
(* for the (context, entity) pair, 0 without an active context or for an   *)
(* unknown id.                                                             *)
(***************************************************************************)
Scale == 100

Adjacent(g, n) == successors(g, n) \cup predecessors(g, n)

RECURSIVE Ball(_, _, _)
Ball(g, S, k) ==
    IF k = 0 THEN S
    ELSE LET B == Ball(g, S, k - 1)
         IN  B \cup UNION {Adjacent(g, n) : n \in B}

\* Hops from the nearest member of S to n, either direction; -1 if none.
HopDistance(g, S, n) ==
    LET ks == {k \in 0..Len(g.nodes) : n \in Ball(g, S, k)}
    IN  IF ks = {} THEN -1 ELSE CHOOSE k \in ks : \A j \in ks : k <= j

FocusFactor(ctx, h, id) ==
    IF id \in Range(FocusOf(ctx, h)) THEN <<Scale>> ELSE <<>>

KeywordFactor(ctx, id) ==
    IF "keywords" \in DOMAIN ctx /\ ctx["keywords"] # <<>>
    THEN LET kw == Range(ctx["keywords"])
         IN  <<(Scale * Cardinality(kw \cap EntityWords(id))) \div Cardinality(kw)>>
    ELSE <<>>

TypeFilter(ctx, key) == IF key \in DOMAIN ctx THEN Range(ctx[key]) ELSE {}

TypeFactor(g, ctx, id) ==
    LET et == TypeFilter(ctx, "entity_types")
        rt == TypeFilter(ctx, "relationship_types")
        incident == {e[4] : e \in {x \in EdgeSet(g) : x[1] = id \/ x[2] = id}}
    IN  IF et = {} /\ rt = {} THEN <<>>
        ELSE IF EntityTypeOf(id) \in et \/ incident \cap rt # {}
             THEN <<Scale>> ELSE <<0>>

RecencyFactor(lcc, id) ==
    IF EntityUpdated(id) < 0 THEN <<>>
    ELSE LET gap == IF lcc >= EntityUpdated(id) THEN lcc - EntityUpdated(id)
                    ELSE EntityUpdated(id) - lcc
         IN  <<Scale \div (1 + gap)>>

ProximityFactor(g, ctx, h, id) ==
    LET focus == Range(FocusOf(ctx, h))
    IN  IF focus = {} \/ id \in focus THEN <<>>
        ELSE LET d == HopDistance(g, focus, id)
             IN  IF d < 0 THEN <<0>> ELSE <<Scale \div (1 + d)>>

RelevanceFactors(g, ctx, h, lcc, id) ==
    FocusFactor(ctx, h, id) \o KeywordFactor(ctx, id) \o TypeFactor(g, ctx, id)
        \o RecencyFactor(lcc, id) \o ProximityFactor(g, ctx, h, id)

\* Variant: the factors are evaluated whether or not a context is active.
calculate_entity_relevance_without_context_guard(g, ctx, h, lcc, id) ==
    IF ~has_node(g, id) THEN 0
    ELSE LET f == RelevanceFactors(g, ctx, h, lcc, id)
         IN  IF f = <<>> THEN 0 ELSE SumSeq(f) \div Len(f)

calculate_entity_relevance(g, ctx, h, lcc, id) ==
    IF ~ContextActive(ctx) \/ ~has_node(g, id) THEN 0
    ELSE LET f == RelevanceFactors(g, ctx, h, lcc, id)
         IN  IF f = <<>> THEN 0 ELSE SumSeq(f) \div Len(f)

\* Keyword extraction from a task description (a sequence of words).
StopWords == {"the", "a"}

extract_keywords(desc) == SelectSeq(desc, LAMBDA w : w \notin StopWords)

(***************************************************************************)
(* The ContextManager object: the methods as functions from the object's   *)
(* state `self` (a record of its attributes plus the heap) to its state    *)
(* after the call.                                                         *)
(***************************************************************************)
Self ==
    [current_context |-> current_context,
     heap |-> heap,
     context_history |-> context_history,
     entity_relevance_cache |-> entity_relevance_cache,
     last_context_change |-> last_context_change]

\* The history entry set_context appends; dict.copy() is shallow, so the
\* archived dict holds the same list address as the live one.
ArchiveEntry(self, t_end) ==
    [context |-> self.current_context,
     start_time |-> self.last_context_change,
     end_time |-> t_end]

\* Variant: the previous dict is archived even when it is empty.
set_context_always_archiving(self, context_data, t_end, t_change) ==
    [self EXCEPT
        !.context_history =
            Append(@, [context |-> self.current_context,
                       start_time |-> self.last_context_change,
                       end_time |-> t_end]),
        !.current_context = context_data,
        !.last_context_change = t_change,
        !.entity_relevance_cache = EmptyDict]

\* set_context(context_data), with the two clock readings it takes.
set_context(self, context_data, t_end, t_change) ==
    [self EXCEPT
        !.context_history =
            IF ContextActive(self.current_context)
            THEN Append(@, ArchiveEntry(self, t_end))
            ELSE @,
        !.current_context = context_data,
        !.last_context_change = t_change,
        !.entity_relevance_cache = EmptyDict]

\* Variant: the merge leaves the cache as it is.
update_context_keeping_cache(self, context_updates, t_change) ==
    [self EXCEPT
        !.current_context = Updated(@, context_updates),
        !.last_context_change = t_change]

\* update_context(context_updates): dict.update, then the cache is cleared.
update_context(self, context_updates, t_change) ==
    [self EXCEPT
        !.current_context = Updated(@, context_updates),
        !.last_context_change = t_change,
        !.entity_relevance_cache = EmptyDict]

\* del cache[id] if present.
Evict(cache, id) == Dict([k \in DOMAIN cache \ {id} |-> cache[k]])

\* Variant: the focus list is created before the graph is consulted.
add_focus_entity_list_first(g, self, entity_id) ==
    LET ctx == self.current_context
        withList ==
            IF HasFocusList(ctx) THEN self
            ELSE [self EXCEPT
                    !.heap = Append(@, <<>>),
                    !.current_context =
                        Updated(ctx, Dict1("focus_entities", Len(self.heap) + 1))]
        addr == withList.current_context["focus_entities"]
    IN  IF ~(entity_id \in NodeSet(g)) THEN [self |-> withList, ret |-> FALSE]
        ELSE IF entity_id \notin Range(withList.heap[addr])
        THEN [self |-> [withList EXCEPT
                            !.heap[addr] = Append(@, entity_id),
                            !.entity_relevance_cache = Evict(@, entity_id)],
              ret |-> TRUE]
        ELSE [self |-> withList, ret |-> TRUE]

\* Variant: the id is appended without looking for it in the list.
add_focus_entity_always_appends(g, self, entity_id) ==
    LET ctx == self.current_context
        withList ==
            IF HasFocusList(ctx) THEN self
            ELSE [self EXCEPT
                    !.heap = Append(@, <<>>),
                    !.current_context =
                        Updated(ctx, Dict1("focus_entities", Len(self.heap) + 1))]
        addr == withList.current_context["focus_entities"]
    IN  IF ~(entity_id \in NodeSet(g)) THEN [self |-> self, ret |-> FALSE]
        ELSE [self |-> [withList EXCEPT
                            !.heap[addr] = Append(@, entity_id),
                            !.entity_relevance_cache = Evict(@, entity_id)],
              ret |-> TRUE]

\* add_focus_entity(entity_id): the object afterwards and the value returned.
add_focus_entity(g, self, entity_id) ==
    LET ctx == self.current_context
        withList ==
            IF HasFocusList(ctx) THEN self
            ELSE [self EXCEPT
                    !.heap = Append(@, <<>>),
                    !.current_context =
                        Updated(ctx, Dict1("focus_entities", Len(self.heap) + 1))]
        addr == withList.current_context["focus_entities"]
    IN  IF ~has_node(g, entity_id) THEN [self |-> self, ret |-> FALSE]
        ELSE IF entity_id \notin Range(withList.heap[addr])
        THEN [self |-> [withList EXCEPT
                            !.heap[addr] = Append(@, entity_id),
                            !.entity_relevance_cache = Evict(@, entity_id)],
              ret |-> TRUE]
        ELSE [self |-> withList, ret |-> TRUE]

\* Variant: every occurrence of the id is removed.
remove_focus_entity_all(self, entity_id) ==
    IF ~HasFocusList(self.current_context) THEN [self |-> self, ret |-> FALSE]
    ELSE LET addr == self.current_context["focus_entities"]
         IN  IF entity_id \in Range(self.heap[addr])
             THEN [self |-> [self EXCEPT
                                !.heap[addr] = SelectSeq(@, LAMBDA x : x # entity_id),
                                !.entity_relevance_cache = Evict(@, entity_id)],
                   ret |-> TRUE]
             ELSE [self |-> self, ret |-> FALSE]

\* remove_focus_entity(entity_id): the object afterwards and the value returned.
remove_focus_entity(self, entity_id) ==
    IF ~HasFocusList(self.current_context) THEN [self |-> self, ret |-> FALSE]
    ELSE LET addr == self.current_context["focus_entities"]
         IN  IF entity_id \in Range(self.heap[addr])
             THEN [self |-> [self EXCEPT
                                !.heap[addr] = RemoveFirst(@, entity_id),
                                !.entity_relevance_cache = Evict(@, entity_id)],
                   ret |-> TRUE]
             ELSE [self |-> self, ret |-> FALSE]

\* Variant: every score is computed afresh, cached or not.
EntityScores_recomputed(g, self) ==
    [id \in NodeSet(g) |->
        calculate_entity_relevance(g, self.current_context, self.heap,
                                   self.last_context_change, id)]

\* _score_all_entities(): the scores returned, cached ones reused.
EntityScores(g, self) ==
    [id \in NodeSet(g) |->
        IF id \in DOMAIN self.entity_relevance_cache
        THEN self.entity_relevance_cache[id]
        ELSE calculate_entity_relevance(g, self.current_context, self.heap,
                                        self.last_context_change, id)]

\* _score_all_entities(): the object afterwards, every score cached.
score_all_entities(g, self) ==
    [self EXCEPT !.entity_relevance_cache = Updated(@, EntityScores(g, self))]

\* scores.items(): the <<key, score>> pairs of a dict, its keys taken in `order`.
RECURSIVE Items(_, _)
Items(order, score) ==
    IF order = <<>> THEN <<>>
    ELSE <<<<Head(order), score[Head(order)]>>>> \o Items(Tail(order), score)

\* sorted(items, key=lambda x: x[1], reverse=True): a stable sort, so pairs
\* of equal score keep their order.
RECURSIVE SortDescending(_)
SortDescending(items) ==
    IF items = <<>> THEN <<>>
    ELSE LET i == CHOOSE k \in DOMAIN items :
                    /\ \A j \in DOMAIN items : items[j][2] <= items[k][2]
                    /\ \A j \in 1..(k - 1) : items[j][2] < items[k][2]
         IN  <<items[i]>> \o
             SortDescending(SubSeq(items, 1, i - 1) \o SubSeq(items, i + 1, Len(items)))

\* Variant: the original context is put back by assignment, not by set_context.
get_task_relevant_entities_assigning(g, self, task_description, max_entities, t1, t2, t3, t4) ==
    LET temp_context ==
            [task |-> task_description,
             keywords |-> extract_keywords(task_description)]
        activated == set_context(self, temp_context, t1, t2)
        entity_scores == EntityScores(g, activated)
        sorted_entities == SortDescending(Items(g.nodes, entity_scores))
    IN  [self |-> [activated EXCEPT !.current_context = self.current_context,
                                    !.last_context_change = t4],
         ret |-> Slice(sorted_entities, max_entities)]

\* Variant: the task context is left in place, the original one never restored.
get_task_relevant_entities_not_restoring(g, self, task_description, max_entities, t1, t2, t3, t4) ==
    LET temp_context ==
            [task |-> task_description,
             keywords |-> extract_keywords(task_description)]
        activated == set_context(self, temp_context, t1, t2)
        entity_scores == EntityScores(g, activated)
        sorted_entities == SortDescending(Items(g.nodes, entity_scores))
    IN  [self |-> score_all_entities(g, activated),
         ret |-> Slice(sorted_entities, max_entities)]

\* get_task_relevant_entities(task_description, max_entities), with the four
\* clock readings its two set_context calls take.
get_task_relevant_entities(g, self, task_description, max_entities, t1, t2, t3, t4) ==
    LET temp_context ==
            [task |-> task_description,
             keywords |-> extract_keywords(task_description)]
        original_context == self.current_context
        activated == set_context(self, temp_context, t1, t2)
        entity_scores == EntityScores(g, activated)
        scored == score_all_entities(g, activated)
        restored == set_context(scored, original_context, t3, t4)
        sorted_entities == SortDescending(Items(g.nodes, entity_scores))
    IN  [self |-> restored,
         ret |-> Slice(sorted_entities, max_entities)]

(***************************************************************************)
(* Read-side queries.  None of them assigns current_context,               *)
(* context_history or last_context_change.                                 *)
(***************************************************************************)
RECURSIVE Concat(_)
Concat(ss) == IF ss = <<>> THEN <<>> ELSE Head(ss) \o Concat(Tail(ss))

\* graph.get_edge_data(u, v): the relationships from u to v, in key order.
EdgesBetween(g, u, v) == SelectSeq(g.edges, LAMBDA e : e[1] = u /\ e[2] = v)

\* The selection loop of get_context_subgraph.
RECURSIVE SelectEntities(_, _, _, _)
SelectEntities(sorted, threshold, max_nodes, selected) ==
    IF sorted = <<>> THEN selected
    ELSE SelectEntities(Tail(sorted), threshold, max_nodes,
                        IF Head(sorted)[2] >= threshold /\ Len(selected) < max_nodes
                        THEN Append(selected, Head(sorted)[1])
                        ELSE selected)

\* get_context_subgraph(max_nodes, relevance_threshold): the object afterwards
\* and the graph returned.
get_context_subgraph(g, self, max_nodes, relevance_threshold) ==
    IF ~ContextActive(self.current_context) THEN [self |-> self, ret |-> EmptyGraph]
    ELSE LET entity_scores == EntityScores(g, self)
             sorted_entities == SortDescending(Items(g.nodes, entity_scores))
             selected == SelectEntities(sorted_entities, relevance_threshold,
                                        max_nodes, <<>>)
             n == Len(selected)
             pairs == [i \in 1..(n * n) |->
                          <<selected[((i - 1) \div n) + 1], selected[((i - 1) % n) + 1]>>]
         IN  [self |-> score_all_entities(g, self),
              ret |-> [nodes |-> selected,
                       edges |-> Concat([i \in 1..(n * n) |->
                                    IF pairs[i][1] # pairs[i][2]
                                    THEN EdgesBetween(g, pairs[i][1], pairs[i][2])
                                    ELSE <<>>])]]

\* _create_context_weighted_graph(): a copy of the graph whose relationships
\* carry a traversal weight, lower for more relevant endpoints, always positive.
create_context_weighted_graph(g, self) ==
    LET rel(id) == calculate_entity_relevance(g, self.current_context, self.heap,
                                              self.last_context_change, id)
    IN  [nodes |-> g.nodes,
         edges |-> g.edges,
         weight |-> [i \in DOMAIN g.edges |->
                        2 * Scale + 1 - (rel(g.edges[i][1]) + rel(g.edges[i][2]))]]

\* Variant: the expansion goes on until nothing new is met, whatever max_distance.
RECURSIVE Expand_any_distance(_, _, _, _, _)
Expand_any_distance(wg, neighborhood_nodes, frontier, rounds, max_nodes) ==
    LET new_frontier ==
            UNION {successors(wg, n) \cup predecessors(wg, n) : n \in frontier}
                \ neighborhood_nodes
        grown == neighborhood_nodes \cup new_frontier
    IN  IF new_frontier = {} \/ Cardinality(grown) >= max_nodes THEN grown
        ELSE Expand_any_distance(wg, grown, new_frontier, rounds, max_nodes)

\* The breadth-first expansion loop of get_entity_neighborhood.
RECURSIVE Expand(_, _, _, _, _)
Expand(wg, neighborhood_nodes, frontier, rounds, max_nodes) ==
    IF rounds <= 0 THEN neighborhood_nodes
    ELSE LET new_frontier ==
                 UNION {successors(wg, n) \cup predecessors(wg, n) : n \in frontier}
                     \ neighborhood_nodes
             grown == neighborhood_nodes \cup new_frontier
         IN  IF Cardinality(grown) >= max_nodes THEN grown
             ELSE Expand(wg, grown, new_frontier, rounds - 1, max_nodes)

\* The orders in which a Python set may be iterated.
Orderings(S) == {s \in [1..Cardinality(S) -> S] : Range(s) = S}

\* The truncation loop of get_entity_neighborhood.
RECURSIVE TakeTop(_, _, _, _)
TakeTop(sorted_nodes, entity_id, kept, max_nodes) ==
    IF sorted_nodes = <<>> THEN kept
    ELSE IF Head(sorted_nodes)[1] = entity_id
         THEN TakeTop(Tail(sorted_nodes), entity_id, kept, max_nodes)
         ELSE LET k == kept \cup {Head(sorted_nodes)[1]}
              IN  IF Cardinality(k) >= max_nodes THEN k
                  ELSE TakeTop(Tail(sorted_nodes), entity_id, k, max_nodes)

\* graph.subgraph(S).copy()
InducedSubgraph(g, S) ==
    [nodes |-> SelectSeq(g.nodes, LAMBDA n : n \in S),
     edges |-> SelectSeq(g.edges, LAMBDA e : e[1] \in S /\ e[2] \in S)]

\* The node set get_entity_neighborhood reaches before truncation.
NeighborhoodReached(g, self, entity_id, max_distance, max_nodes, context_weighted) ==
    LET weighted_graph ==
            IF context_weighted /\ ContextActive(self.current_context)
            THEN create_context_weighted_graph(g, self)
            ELSE g
    IN  Expand(weighted_graph, {entity_id}, {entity_id}, max_distance, max_nodes)

\* The iteration orders that matter to get_entity_neighborhood: those of the
\* reached set when it is truncated, none otherwise.
NeighborhoodOrders(g, self, entity_id, max_distance, max_nodes, context_weighted) ==
    IF ~has_node(g, entity_id) THEN {<<>>}
    ELSE LET reached == NeighborhoodReached(g, self, entity_id, max_distance,
                                            max_nodes, context_weighted)
         IN  IF Cardinality(reached) > max_nodes /\ ContextActive(self.current_context)
             THEN Orderings(reached)
             ELSE {<<>>}

\* get_entity_neighborhood(entity_id, max_distance, max_nodes, context_weighted);
\* `order` is the order in which the set of reached nodes is iterated.
get_entity_neighborhood(g, self, entity_id, max_distance, max_nodes, context_weighted, order) ==
    IF ~has_node(g, entity_id) THEN EmptyGraph
    ELSE LET reached == NeighborhoodReached(g, self, entity_id, max_distance,
                                            max_nodes, context_weighted)
             node_scores ==
                 [n \in reached |->
                     calculate_entity_relevance(g, self.current_context, self.heap,
                                                self.last_context_change, n)]
             kept == IF Cardinality(reached) > max_nodes
                        /\ ContextActive(self.current_context)
                     THEN TakeTop(SortDescending(Items(order, node_scores)), entity_id,
                                  {entity_id}, max_nodes)
                     ELSE reached
         IN  InducedSubgraph(g, kept)

\* G.edges(n): the targets of the relationships leaving n, grouped by
\* neighbour in adjacency order, one per parallel relationship.
OutTargets(g, n) ==
    LET out == SelectSeq(g.edges, LAMBDA e : e[1] = n)
        targets == [i \in DOMAIN out |-> out[i][2]]
        order == FirstOccurrences(targets, {})
    IN  Concat([i \in DOMAIN order |->
                   [j \in 1..Count(targets, order[i]) |-> order[i]]])

\* nx.all_simple_paths(G, source, target, cutoff) on a multigraph, in the
\* depth-first order of generation: one path per sequence of relationships.
RECURSIVE SimplePathsFrom(_, _, _, _)
RECURSIVE SimplePathsOver(_, _, _, _, _)
SimplePathsOver(g, visited, children, target, cutoff) ==
    IF children = <<>> THEN <<>>
    ELSE LET child == Head(children)
             here == IF child \in Range(visited) THEN <<>>
                     ELSE IF child = target THEN <<Append(visited, child)>>
                     ELSE SimplePathsFrom(g, Append(visited, child), target, cutoff)
         IN  here \o SimplePathsOver(g, visited, Tail(children), target, cutoff)

SimplePathsFrom(g, visited, target, cutoff) ==
    IF Len(visited) > cutoff THEN <<>>
    ELSE SimplePathsOver(g, visited, OutTargets(g, visited[Len(visited)]), target, cutoff)

all_simple_paths(g, source, target, cutoff) ==
    SimplePathsFrom(g, <<source>>, target, cutoff)

\* The search loop of find_paths_by_context: `for length in range(2, max_length + 1)`.
RECURSIVE SearchPaths(_, _, _, _, _)
SearchPaths(g, source, target, length, max_length) ==
    IF length > max_length THEN <<>>
    ELSE LET paths == all_simple_paths(g, source, target, length)
         IN  IF paths # <<>> THEN paths
             ELSE SearchPaths(g, source, target, length + 1, max_length)

\* nx.shortest_path(G, source, target): the paths it may return, each of the
\* least number of hops; <<>> stands for NetworkXNoPath.
ShortestPaths(g, source, target) ==
    LET all == Range(all_simple_paths(g, source, target, Len(g.nodes)))
    IN  IF source = target THEN {<<source>>}
        ELSE IF all = {} THEN {<<>>}
        ELSE {p \in all : \A q \in all : Len(p) <= Len(q)}

\* _calculate_path_relevance(path): the mean relevance of the nodes on the path.
calculate_path_relevance(g, self, path) ==
    SumSeq([i \in DOMAIN path |->
               calculate_entity_relevance(g, self.current_context, self.heap,
                                          self.last_context_change, path[i])])
        \div Len(path)

\* find_paths_by_context past its early returns: search, fall-back, the
\* reply for one pair of ids, ranking and truncation.
SearchAndRank(g, self, weighted_graph, source_id, target_id, max_paths, max_length, shortest_path) ==
    LET found == SearchPaths(weighted_graph, source_id, target_id, 2, max_length)
        all_paths ==
            IF found # <<>> THEN found
            ELSE IF shortest_path # <<>> /\ Len(shortest_path) <= max_length + 1
                 THEN <<shortest_path>>
                 ELSE <<>>
        path_score == [p \in Range(all_paths) |-> calculate_path_relevance(g, self, p)]
        ranked == SortDescending(Items(all_paths, path_score))
    IN  IF all_paths = <<>> /\ source_id = "software2" /\ target_id = "task3"
        THEN << <<source_id, "person1", target_id>> >>
        ELSE IF all_paths = <<>> THEN <<>>
        ELSE Slice([i \in DOMAIN ranked |-> ranked[i][1]], max_paths)

\* Variant: a direct relationship is not answered at once but searched and
\* ranked like any other pair.
find_paths_by_context_without_fast_path(g, self, source_id, target_id, max_paths, max_length, shortest_path) ==
    IF ~has_node(g, source_id) \/ ~has_node(g, target_id) THEN <<>>
    ELSE IF source_id = target_id THEN << <<source_id>> >>
    ELSE SearchAndRank(g, self, create_context_weighted_graph(g, self), source_id,
                       target_id, max_paths, max_length, shortest_path)

\* Variant: equal endpoints are answered before a direct relationship is
\* looked for.
find_paths_by_context_same_check_first(g, self, source_id, target_id, max_paths, max_length, shortest_path) ==
    IF ~has_node(g, source_id) \/ ~has_node(g, target_id) THEN <<>>
    ELSE IF source_id = target_id THEN << <<source_id>> >>
    ELSE IF has_edge(create_context_weighted_graph(g, self), source_id, target_id)
         THEN << <<source_id, target_id>> >>
    ELSE SearchAndRank(g, self, create_context_weighted_graph(g, self), source_id,
                       target_id, max_paths, max_length, shortest_path)

\* find_paths_by_context(source_id, target_id, max_paths, max_length);
\* `shortest_path` is what nx.shortest_path returns if it is consulted.
find_paths_by_context(g, self, source_id, target_id, max_paths, max_length, shortest_path) ==
    IF ~has_node(g, source_id) \/ ~has_node(g, target_id) THEN <<>>
    ELSE LET weighted_graph == create_context_weighted_graph(g, self)
         IN  IF has_edge(weighted_graph, source_id, target_id)
             THEN << <<source_id, target_id>> >>
             ELSE IF source_id = target_id THEN << <<source_id>> >>
             ELSE SearchAndRank(g, self, weighted_graph, source_id, target_id,
                                max_paths, max_length, shortest_path)

(***************************************************************************)
(* Reclamation of unreachable list objects (reference counting frees a     *)
(* list once no dict refers to it).  The surviving lists are renumbered in *)
(* order of first reference: history entries, then the current context.    *)
(***************************************************************************)
AddrOf(ctx) == IF HasFocusList(ctx) THEN <<ctx["focus_entities"]>> ELSE <<>>

RECURSIVE HistoryAddrs(_)
HistoryAddrs(hist) ==
    IF hist = <<>> THEN <<>> ELSE AddrOf(Head(hist).context) \o HistoryAddrs(Tail(hist))

Relocate(ctx, live) ==
    IF HasFocusList(ctx)
    THEN [ctx EXCEPT !["focus_entities"] = CHOOSE i \in DOMAIN live : live[i] = @]
    ELSE ctx

RECURSIVE RelocateEntries(_, _)
RelocateEntries(hist, live) ==
    IF hist = <<>> THEN <<>>
    ELSE <<[context |-> Relocate(Head(hist).context, live),
            start_time |-> Head(hist).start_time,
            end_time |-> Head(hist).end_time]>>
         \o RelocateEntries(Tail(hist), live)

RECURSIVE LiveLists(_, _)
LiveLists(h, live) ==
    IF live = <<>> THEN <<>> ELSE <<h[Head(live)]>> \o LiveLists(h, Tail(live))

Collect(self) ==
    LET live == FirstOccurrences(
                    HistoryAddrs(self.context_history) \o AddrOf(self.current_context), {})
    IN  [self EXCEPT
            !.heap = LiveLists(self.heap, live),
            !.current_context = Relocate(self.current_context, live),
            !.context_history = RelocateEntries(self.context_history, live)]

(***************************************************************************)
(* Inputs of the calls.                                                    *)
(***************************************************************************)
InputContexts ==
    { EmptyDict,
      [focus_entities |-> <<"person1">>],
      [focus_entities |-> <<"task3", "ghost", "task3">>],
      [keywords |-> <<"code">>, entity_types |-> <<"task">>] }

ContextUpdates ==
    { [task |-> <<"deploy">>],
      [focus_entities |-> <<"software2">>] }

TaskDescriptions == { <<"review", "the", "code">> }

EntityBudgets == {-1, 2}

SubgraphBudgets ==
    { [max_nodes |-> 50, relevance_threshold |-> 30],
      [max_nodes |-> 50, relevance_threshold |-> 0],
      [max_nodes |-> 1, relevance_threshold |-> 0],
      [max_nodes |-> -1, relevance_threshold |-> 0] }

NeighborhoodArgs ==
    { [entity_id |-> "person1", max_distance |-> 1, max_nodes |-> 10,
       context_weighted |-> TRUE],
      [entity_id |-> "task3", max_distance |-> 1, max_nodes |-> 2,
       context_weighted |-> TRUE],
      [entity_id |-> "ghost", max_distance |-> 2, max_nodes |-> 30,
       context_weighted |-> FALSE] }

PathArgs ==
    { [source_id |-> "person1", target_id |-> "software2", max_paths |-> 3,
       max_length |-> 4],
      [source_id |-> "person1", target_id |-> "software2", max_paths |-> -1,
       max_length |-> 4],
      [source_id |-> "person1", target_id |-> "task3", max_paths |-> 0,
       max_length |-> 0],
      [source_id |-> "software2", target_id |-> "task3", max_paths |-> 3,
       max_length |-> 4],
      [source_id |-> "software2", target_id |-> "person1", max_paths |-> 3,
       max_length |-> 4],
      [source_id |-> "ghost", target_id |-> "task3", max_paths |-> 3,
       max_length |-> 4],
      [source_id |-> "task3", target_id |-> "task3", max_paths |-> 3,
       max_length |-> 4],
      [source_id |-> "person1", target_id |-> "person1", max_paths |-> 3,
       max_length |-> 4] }

\* datetime.now(): any reading, earlier or later than the previous one.
Now == 0..MaxTime

(***************************************************************************)
(* SecurityProvider.  The ACL store is a dict of dicts as json.load        *)
(* returns it; the file at acl_store_path is described by whether it       *)
(* exists, can be read, can be written (or created, when it does not       *)
(* exist), holds text that json.load accepts, and by the dict that text    *)
(* stands for.                                                             *)
(***************************************************************************)
\* d.get(k, default)
Get(d, k, default) == IF k \in DOMAIN d THEN d[k] ELSE default

\* d[k] = v
SetKey(d, k, v) == Updated(d, Dict1(k, v))

\* {"roles": {"admin": a, "editor": e, "viewer": v}}
RolePermissions(a, e, v) ==
    Dict1("roles", [r \in {"admin", "editor", "viewer"} |->
                       IF r = "admin" THEN a ELSE IF r = "editor" THEN e ELSE v])

DefaultOperationNames ==
    {"read_entity", "write_entity", "delete_entity", "read_relationship",
     "write_relationship", "delete_relationship", "read_pattern"}

\* The default_operations literal of _set_default_permissions.
default_operations ==
    [op \in DefaultOperationNames |->
        CASE op = "read_entity" -> RolePermissions(TRUE, TRUE, TRUE)
          [] op = "write_entity" -> RolePermissions(TRUE, TRUE, FALSE)
          [] op = "delete_entity" -> RolePermissions(TRUE, FALSE, FALSE)
          [] op = "read_relationship" -> RolePermissions(TRUE, TRUE, TRUE)
          [] op = "write_relationship" -> RolePermissions(TRUE, TRUE, FALSE)
          [] op = "delete_relationship" -> RolePermissions(TRUE, FALSE, FALSE)
          [] op = "read_pattern" -> RolePermissions(TRUE, TRUE, TRUE)]

\* The dict _initialize_acl_store writes and returns.
EmptyAclStore ==
    [k \in {"operations", "entity_types", "relationship_types", "users"} |-> EmptyDict]

AclFile(exists, readable, writable, well_formed, content) ==
    [exists |-> exists, readable |-> readable, writable |-> writable,
     well_formed |-> well_formed, content |-> content]

\* The file after json.dump(store) into it succeeded.
Written(file, store) ==
    AclFile(TRUE, IF file.exists THEN file.readable ELSE TRUE, TRUE, TRUE, store)

\* _initialize_acl_store(): os.makedirs and open(..., 'w') raise when the
\* path cannot be written; nothing catches that here.
initialize_acl_store(file) ==
    IF ~file.writable
    THEN [raised |-> TRUE, acl_store |-> EmptyDict, acl_file |-> file]
    ELSE [raised |-> FALSE, acl_store |-> EmptyAclStore,
          acl_file |-> Written(file, EmptyAclStore)]

\* _load_acl_store(): a file that exists is opened and parsed; a missing
\* file, and every exception, lead to _initialize_acl_store(), called for
\* the second time from the except clause when the first call raised.
load_acl_store(file) ==
    IF file.exists /\ file.readable /\ file.well_formed
    THEN [raised |-> FALSE, acl_store |-> file.content, acl_file |-> file]
    ELSE initialize_acl_store(file)

\* _save_acl_store(): the file afterwards; every exception is caught.
save_acl_store(store, file) ==
    IF file.writable THEN Written(file, store) ELSE file

\* The loop of _set_default_permissions: an operation the store has no
\* entry for receives the default one.
WithDefaultOperations(store) ==
    LET present == Get(store, "operations", EmptyDict)
    IN  SetKey(store, "operations",
               [op \in DOMAIN present \cup DefaultOperationNames |->
                   IF op \in DOMAIN present THEN present[op]
                   ELSE default_operations[op]])

\* Variant: the defaults are set only in a store without any operation.
set_default_permissions_when_empty(store, file) ==
    LET new == IF Get(store, "operations", EmptyDict) = EmptyDict
               THEN WithDefaultOperations(store) ELSE store
    IN  [acl_store |-> new, acl_file |-> save_acl_store(new, file)]

\* _set_default_permissions()
set_default_permissions(store, file) ==
    LET new == WithDefaultOperations(store)
    IN  [acl_store |-> new, acl_file |-> save_acl_store(new, file)]

\* SecurityProvider(acl_store_path): whether construction raised, and the
\* store and the file afterwards.
SecurityProvider_init(file) ==
    LET loaded == load_acl_store(file)
    IN  IF loaded.raised THEN loaded
        ELSE LET set == set_default_permissions(loaded.acl_store, loaded.acl_file)
             IN  [raised |-> FALSE, acl_store |-> set.acl_store,
                  acl_file |-> set.acl_file]

\* `if user_id and ...`: None and the empty string are both false.
Truthy(user_context) ==
    "user_id" \in DOMAIN user_context /\ user_context["user_id"] # ""

\* user_context.get("role", "viewer")
RoleOf(user_context) == Get(user_context, "role", "viewer")

\* can_access(user_context, operation)
can_access(store, user_context, operation) ==
    LET role == RoleOf(user_context)
        users == Get(store, "users", EmptyDict)
        operations == Get(store, "operations", EmptyDict)
    IN  IF /\ Truthy(user_context)
           /\ user_context["user_id"] \in DOMAIN users
           /\ operation \in DOMAIN users[user_context["user_id"]]
        THEN users[user_context["user_id"]][operation]
        ELSE IF /\ operation \in DOMAIN operations
                /\ "roles" \in DOMAIN operations[operation]
                /\ role \in DOMAIN operations[operation]["roles"]
        THEN operations[operation]["roles"][role]
        ELSE FALSE

\* can_access_entity_type and can_access_relationship_type, which differ in
\* the section of the store they read ("entity_types", "relationship_types").
can_access_type(store, section, user_context, type) ==
    LET role == RoleOf(user_context)
        types == Get(store, section, EmptyDict)
        permissions == Get(types, type, EmptyDict)
        users == Get(permissions, "users", EmptyDict)
        roles == Get(permissions, "roles", EmptyDict)
    IN  IF Truthy(user_context) /\ user_context["user_id"] \in DOMAIN users
        THEN users[user_context["user_id"]]
        ELSE IF role \in DOMAIN roles THEN roles[role]
        ELSE TRUE

can_access_entity_type(store, user_context, entity_type) ==
    can_access_type(store, "entity_types", user_context, entity_type)

can_access_relationship_type(store, user_context, relationship_type) ==
    can_access_type(store, "relationship_types", user_context, relationship_type)

\* store[section][name]["roles"][role] = allowed, the section and the entry
\* created when missing: the body shared by set_operation_permission,
\* set_entity_type_permission and set_relationship_type_permission.
SetRolePermission(store, section, name, role, allowed) ==
    LET entries == Get(store, section, EmptyDict)
        entry == Get(entries, name, Dict1("roles", EmptyDict))
    IN  SetKey(store, section,
               SetKey(entries, name,
                      SetKey(entry, "roles", SetKey(entry["roles"], role, allowed))))

set_operation_permission(store, file, operation, role, allowed) ==
    LET new == SetRolePermission(store, "operations", operation, role, allowed)
    IN  [acl_store |-> new, acl_file |-> save_acl_store(new, file)]

set_user_operation_permission(store, file, operation, user_id, allowed) ==
    LET users == Get(store, "users", EmptyDict)
        new == SetKey(store, "users",
                      SetKey(users, user_id,
                             SetKey(Get(users, user_id, EmptyDict), operation, allowed)))
    IN  [acl_store |-> new, acl_file |-> save_acl_store(new, file)]

set_entity_type_permission(store, file, entity_type, role, allowed) ==
    LET new == SetRolePermission(store, "entity_types", entity_type, role, allowed)
    IN  [acl_store |-> new, acl_file |-> save_acl_store(new, file)]

set_relationship_type_permission(store, file, relationship_type, role, allowed) ==
    LET new == SetRolePermission(store, "relationship_types", relationship_type,
                                 role, allowed)
    IN  [acl_store |-> new, acl_file |-> save_acl_store(new, file)]

\* A file that does not exist, in a place where it can or cannot be created.
MissingFile(writable) == AclFile(FALSE, FALSE, writable, FALSE, EmptyDict)

\* A store some earlier run saved: viewers may write entities, and the type
\* person and the relationship type uses carry rules of their own.
SavedStore ==
    LET people == [u \in {"alice", ""} |-> TRUE]
    IN  SetKey(SetKey(SetKey(SetKey(EmptyDict,
            "operations", Dict1("write_entity",
                                Dict1("roles", Dict1("viewer", TRUE)))),
            "entity_types", Dict1("person",
                                Updated(Dict1("roles", Dict1("viewer", FALSE)),
                                        Dict1("users", people)))),
            "relationship_types", Dict1("uses",
                                Updated(Dict1("roles", Dict1("admin", FALSE)),
                                        Dict1("users", Dict1("alice", FALSE))))),
            "users", Dict1("alice", Dict1("delete_entity", TRUE)))

\* The files a provider is constructed on.
AclFiles ==
    { MissingFile(TRUE),
      MissingFile(FALSE),
      AclFile(TRUE, TRUE, TRUE, TRUE, EmptyDict),
      AclFile(TRUE, TRUE, TRUE, TRUE, SavedStore),
      AclFile(TRUE, TRUE, FALSE, TRUE, SavedStore),
      AclFile(TRUE, TRUE, TRUE, FALSE, EmptyDict),
      AclFile(TRUE, TRUE, FALSE, FALSE, EmptyDict),
      AclFile(TRUE, FALSE, FALSE, TRUE, SavedStore) }

UserContexts ==
    { EmptyDict,
      Dict1("role", "admin"),
      Updated(Dict1("user_id", "alice"), Dict1("role", "viewer")),
      Updated(Dict1("user_id", "alice"), Dict1("role", "admin")),
      Updated(Dict1("user_id", ""), Dict1("role", "viewer")) }

AccessOperations == {"write_entity", "read_entity", "export"}

OperationPermissionArgs ==
    { [operation |-> "read_entity", role |-> "viewer", allowed |-> FALSE],
      [operation |-> "export", role |-> "admin", allowed |-> TRUE] }

UserOperationPermissionArgs ==
    { [operation |-> "write_entity", user_id |-> "alice", allowed |-> TRUE],
      [operation |-> "read_entity", user_id |-> "alice", allowed |-> FALSE],
      [operation |-> "write_entity", user_id |-> "", allowed |-> TRUE] }

EntityTypePermissionArgs ==
    { [entity_type |-> "person", role |-> "admin", allowed |-> FALSE],
      [entity_type |-> "task", role |-> "viewer", allowed |-> FALSE] }

RelationshipTypePermissionArgs ==
    { [relationship_type |-> "uses", role |-> "viewer", allowed |-> FALSE] }

EntityTypes == {"person", "task"}

RelationshipTypes == {"uses", "created"}

\* No provider has been constructed.
NoProvider ==
    /\ acl_store = EmptyDict
    /\ acl_file = MissingFile(FALSE)

(***************************************************************************)
(* The state machine: one action per public method.                        *)
(***************************************************************************)
Commit(self) ==
    LET s == Collect(self)
    IN  /\ current_context' = s.current_context
        /\ heap' = s.heap
        /\ context_history' = s.context_history
        /\ entity_relevance_cache' = s.entity_relevance_cache
        /\ last_context_change' = s.last_context_change

\* The values a call returns, each under the name of its Python type.
None == [NoneType |-> "None"]

Bool(b) == [bool |-> b]

\* Another public call may be made.
CanCall == calls < MaxCalls

\* A public call is made and returns.
Called(op, args, ret) ==
    /\ calls' = calls + 1
    /\ call' = [op |-> op, args |-> args]
    /\ result' = ret
    /\ UNCHANGED <<graph, acl_store, acl_file>>

\* The activation time after a call that edits the current dict in place:
\* the dict becomes the active context at time t if it was empty before.
Activation(added, t) ==
    IF DOMAIN current_context = {} /\ DOMAIN added # {} THEN t ELSE activated_at

Init ==
    /\ graph \in Graphs
    /\ current_context = EmptyDict
    /\ heap = <<>>
    /\ context_history = <<>>
    /\ entity_relevance_cache = EmptyDict
    /\ \E t \in Now :
        /\ last_context_change = t
        /\ clock = t
    /\ call = [op |-> "__init__", args |-> <<>>]
    /\ result = None
    /\ calls = 0
    /\ activated_at = 0
    /\ replacements = 0
    /\ NoProvider

SetContext ==
    /\ CanCall
    /\ \E v \in InputContexts, t1 \in Now, t2 \in Now :
        LET new == NewDict(heap, v)
        IN  /\ Commit(set_context([Self EXCEPT !.heap = new.heap], new.dict, t1, t2))
            /\ clock' = t2
            /\ activated_at' = t2
            /\ replacements' = replacements + (IF DOMAIN current_context # {} THEN 1 ELSE 0)
            /\ Called("set_context", [context_data |-> v], None)

UpdateContext ==
    /\ CanCall
    /\ \E v \in ContextUpdates, t \in Now :
        LET new == NewDict(heap, v)
        IN  /\ Commit(update_context([Self EXCEPT !.heap = new.heap], new.dict, t))
            /\ clock' = t
            /\ activated_at' = Activation(v, t)
            /\ UNCHANGED replacements
            /\ Called("update_context", [context_updates |-> v], None)

AddFocusEntity ==
    /\ CanCall
    /\ \E id \in Ids :
        LET r == add_focus_entity(graph, Self, id)
        IN  /\ Commit(r.self)
            /\ Called("add_focus_entity", [entity_id |-> id], Bool(r.ret))
            /\ activated_at' = Activation(r.self.current_context, clock)
            /\ UNCHANGED <<clock, replacements>>

RemoveFocusEntity ==
    /\ CanCall
    /\ \E id \in Ids :
        LET r == remove_focus_entity(Self, id)
        IN  /\ Commit(r.self)
            /\ Called("remove_focus_entity", [entity_id |-> id], Bool(r.ret))
            /\ UNCHANGED <<clock, activated_at, replacements>>

ScoreAll ==
    /\ CanCall
    /\ Commit(score_all_entities(graph, Self))
    /\ Called("score_all_entities", <<>>,
              [dict |-> EntityScores(graph, Self)])
    /\ UNCHANGED <<clock, activated_at, replacements>>

GetTaskRelevantEntities ==
    /\ CanCall
    /\ \E d \in TaskDescriptions, n \in EntityBudgets :
      \E t1 \in Now, t2 \in Now, t3 \in Now, t4 \in Now :
        LET r == get_task_relevant_entities(graph, Self, d, n, t1, t2, t3, t4)
        IN  /\ Commit(r.self)
            /\ clock' = t4
            /\ activated_at' = t4
            /\ replacements' = replacements + (IF DOMAIN current_context # {} THEN 2 ELSE 1)
            /\ Called("get_task_relevant_entities",
                      [task_description |-> d, max_entities |-> n],
                      [scored |-> r.ret])

GetContextSubgraph ==
    /\ CanCall
    /\ \E b \in SubgraphBudgets :
        LET r == get_context_subgraph(graph, Self, b.max_nodes, b.relevance_threshold)
        IN  /\ Commit(r.self)
            /\ Called("get_context_subgraph", b, [MultiDiGraph |-> r.ret])
            /\ UNCHANGED <<clock, activated_at, replacements>>

GetEntityNeighborhood ==
    /\ CanCall
    /\ \E a \in NeighborhoodArgs :
      \E order \in NeighborhoodOrders(graph, Self, a.entity_id, a.max_distance,
                                       a.max_nodes, a.context_weighted) :
        /\ Commit(Self)
        /\ Called("get_entity_neighborhood", a,
                  [MultiDiGraph |->
                      get_entity_neighborhood(graph, Self, a.entity_id, a.max_distance,
                                              a.max_nodes, a.context_weighted, order)])
        /\ UNCHANGED <<clock, activated_at, replacements>>

FindPathsByContext ==
    /\ CanCall
    /\ \E a \in PathArgs :
      \E shortest_path \in ShortestPaths(graph, a.source_id, a.target_id) :
        /\ Commit(Self)
        /\ Called("find_paths_by_context", a,
                  [paths |->
                      find_paths_by_context(graph, Self, a.source_id, a.target_id,
                                            a.max_paths, a.max_length, shortest_path)])
        /\ UNCHANGED <<clock, activated_at, replacements>>

Next ==
    \/ SetContext
    \/ UpdateContext
    \/ AddFocusEntity
    \/ RemoveFocusEntity
    \/ ScoreAll
    \/ GetTaskRelevantEntities
    \/ GetContextSubgraph
    \/ GetEntityNeighborhood
    \/ FindPathsByContext

Spec == Init /\ [][Next]_vars

\* A manager on which set_context(v) has just been called, after construction,
\* with a non-empty v, everything within one clock reading.
InitActive ==
    /\ graph \in Graphs
    /\ \E v \in InputContexts \ {EmptyDict} :
        LET new == NewDict(<<>>, v)
            s == set_context([current_context |-> EmptyDict,
                              heap |-> new.heap,
                              context_history |-> <<>>,
                              entity_relevance_cache |-> EmptyDict,
                              last_context_change |-> 0],
                             new.dict, 0, 0)
        IN  /\ current_context = s.current_context
            /\ heap = s.heap
            /\ context_history = s.context_history
            /\ entity_relevance_cache = s.entity_relevance_cache
            /\ last_context_change = s.last_context_change
            /\ call = [op |-> "set_context", args |-> [context_data |-> v]]
    /\ clock = 0
    /\ result = None
    /\ calls = 0
    /\ activated_at = 0
    /\ replacements = 0
    /\ NoProvider

\* The calls that can follow a first set_context.
ActiveSpec == InitActive /\ [][Next]_vars

\* Sequences of setContext and updateContext calls alone.
NextSetUpdate ==
    \/ SetContext
    \/ UpdateContext

SetUpdateSpec == Init /\ [][NextSetUpdate]_vars

(***************************************************************************)
(* The state machine of a SecurityProvider: construction on some file,     *)
(* then permission setters and access questions.                           *)
(***************************************************************************)
\* What a call shows when an exception left it.
Raised == [OSError |-> "acl_store_path"]

\* No manager is part of this machine.
NoManager ==
    /\ graph = EmptyGraph
    /\ current_context = EmptyDict
    /\ heap = <<>>
    /\ context_history = <<>>
    /\ entity_relevance_cache = EmptyDict
    /\ last_context_change = 0
    /\ clock = 0
    /\ activated_at = 0
    /\ replacements = 0

\* A call on the provider is made and returns; a provider whose
\* construction raised does not exist.
ProviderCalled(op, args, ret) ==
    /\ calls' = calls + 1
    /\ call' = [op |-> op, args |-> args]
    /\ result' = ret
    /\ UNCHANGED <<graph, current_context, heap, context_history,
                   entity_relevance_cache, last_context_change, clock,
                   activated_at, replacements>>

ProviderCommit(r) ==
    /\ acl_store' = r.acl_store
    /\ acl_file' = r.acl_file

CanCallProvider == calls < MaxCalls /\ result # Raised

InitProvider ==
    /\ NoManager
    /\ \E file \in AclFiles :
        LET r == SecurityProvider_init(file)
        IN  /\ acl_store = r.acl_store
            /\ acl_file = r.acl_file
            /\ call = [op |-> "__init__", args |-> file]
            /\ result = IF r.raised THEN Raised ELSE None
    /\ calls = 0

CanAccess ==
    /\ CanCallProvider
    /\ \E user_context \in UserContexts, operation \in AccessOperations :
        ProviderCalled("can_access",
                       [user_context |-> user_context, operation |-> operation],
                       Bool(can_access(acl_store, user_context, operation)))
    /\ UNCHANGED <<acl_store, acl_file>>

CanAccessEntityType ==
    /\ CanCallProvider
    /\ \E user_context \in UserContexts, entity_type \in EntityTypes :
        ProviderCalled("can_access_entity_type",
                       [user_context |-> user_context, entity_type |-> entity_type],
                       Bool(can_access_entity_type(acl_store, user_context, entity_type)))
    /\ UNCHANGED <<acl_store, acl_file>>

CanAccessRelationshipType ==
    /\ CanCallProvider
    /\ \E user_context \in UserContexts, relationship_type \in RelationshipTypes :
        ProviderCalled("can_access_relationship_type",
                       [user_context |-> user_context,
                        relationship_type |-> relationship_type],
                       Bool(can_access_relationship_type(acl_store, user_context,
                                                         relationship_type)))
    /\ UNCHANGED <<acl_store, acl_file>>

SetOperationPermission ==
    /\ CanCallProvider
    /\ \E a \in OperationPermissionArgs :
        /\ ProviderCommit(set_operation_permission(acl_store, acl_file, a.operation,
                                                   a.role, a.allowed))
        /\ ProviderCalled("set_operation_permission", a, Bool(TRUE))

SetUserOperationPermission ==
    /\ CanCallProvider
    /\ \E a \in UserOperationPermissionArgs :
        /\ ProviderCommit(set_user_operation_permission(acl_store, acl_file,
                                                        a.operation, a.user_id,
                                                        a.allowed))
        /\ ProviderCalled("set_user_operation_permission", a, Bool(TRUE))

SetEntityTypePermission ==
    /\ CanCallProvider
    /\ \E a \in EntityTypePermissionArgs :
        /\ ProviderCommit(set_entity_type_permission(acl_store, acl_file,
                                                     a.entity_type, a.role, a.allowed))
        /\ ProviderCalled("set_entity_type_permission", a, Bool(TRUE))

SetRelationshipTypePermission ==
    /\ CanCallProvider
    /\ \E a \in RelationshipTypePermissionArgs :
        /\ ProviderCommit(set_relationship_type_permission(acl_store, acl_file,
                                                           a.relationship_type,
                                                           a.role, a.allowed))
        /\ ProviderCalled("set_relationship_type_permission", a, Bool(TRUE))

NextProvider ==
    \/ CanAccess
    \/ CanAccessEntityType
    \/ CanAccessRelationshipType
    \/ SetOperationPermission
    \/ SetUserOperationPermission
    \/ SetEntityTypePermission
    \/ SetRelationshipTypePermission

ProviderSpec == InitProvider /\ [][NextProvider]_vars

(***************************************************************************)
(* Properties.                                                             *)
(***************************************************************************)
CurrentFocus == FocusOf(current_context, heap)

CurrentScore(id) ==
    calculate_entity_relevance(graph, current_context, heap, last_context_change, id)

\* One history entry as an observer reads it: the archived dict with its
\* focus list, and the two times.
EntryView(e, h) ==
    [context |-> Deref(e.context, h), start_time |-> e.start_time, end_time |-> e.end_time]

\* s without its i-th element.
WithoutIndex(s, i) == SubSeq(s, 1, i - 1) \o SubSeq(s, i + 1, Len(s))

\* C1: every entry of the relevance cache equals the score the scorer
\* computes for that entity under the current context (focus set included).
C1_CacheMatchesContext ==
    \A id \in DOMAIN entity_relevance_cache :
        entity_relevance_cache[id] = CurrentScore(id)

\* C2: when setContext or updateContext has returned, the relevance cache
\* is empty.
C2_CacheEmptyAfterReplaceOrMerge ==
    call.op \in {"set_context", "update_context"}
        => entity_relevance_cache = EmptyDict

\* updateContext has returned on an object whose earlier context was archived.
C2_Witness ==
    /\ call.op = "update_context"
    /\ entity_relevance_cache = EmptyDict
    /\ Len(context_history) >= 1
    /\ DOMAIN current_context # {}

\* C3: the history grows by one entry on a setContext call made while a
\* context is active and by none otherwise; updateContext, addFocusEntity,
\* removeFocusEntity, getContextSubgraph, getEntityNeighborhood and
\* findPathsByContext leave its length alone; so the length always equals
\* the number of replacements of an active context.
C3_HistoryCountsReplacements ==
    /\ [](Len(context_history) = replacements)
    /\ [][/\ call'.op = "set_context"
              => Len(context_history')
                    = Len(context_history) + (IF DOMAIN current_context # {} THEN 1 ELSE 0)
          /\ call'.op \in {"update_context", "add_focus_entity", "remove_focus_entity",
                           "get_context_subgraph", "get_entity_neighborhood",
                           "find_paths_by_context"}
              => Len(context_history') = Len(context_history)]_vars

\* A third call, setContext, has replaced the active context that an earlier
\* setContext installed when none was active: one entry after three calls.
C3_Witness ==
    /\ call.op = "set_context"
    /\ calls = 3
    /\ Len(context_history) = 1
    /\ context_history[1].start_time = 0
    /\ context_history[1].end_time = 1
    /\ entity_relevance_cache = EmptyDict
    /\ DOMAIN context_history[1].context = {"keywords", "entity_types"}

\* C4: over sequences of setContext and updateContext calls every history
\* entry ends no earlier than it starts, and the entry setContext appends
\* starts at the time the archived context was activated; its end is the
\* reading the replacing call takes for it.
C4_StartIsActivationTime ==
    /\ [](\A i \in DOMAIN context_history :
            context_history[i].end_time >= context_history[i].start_time)
    /\ [][(call'.op = "set_context" /\ Len(context_history') > Len(context_history))
            => context_history'[Len(context_history')].start_time = activated_at]_vars

\* C5: the history is append-only and no entry changes after it was
\* appended: its context (focus list included) and its times stay as they were.
C5_HistoryEntriesImmutable ==
    [][/\ Len(context_history') >= Len(context_history)
       /\ \A i \in DOMAIN context_history :
            EntryView(context_history'[i], heap') = EntryView(context_history[i], heap)]_vars

\* C6: addFocusEntity with an id absent from the graph returns false and
\* leaves context, cache, history and last change time as they were.
C6_UnknownIdRejected ==
    [][(call'.op = "add_focus_entity" /\ call'.args.entity_id \notin NodeSet(graph))
        => /\ result' = Bool(FALSE)
           /\ UNCHANGED <<current_context, heap, entity_relevance_cache,
                          context_history, last_context_change>>]_vars

\* The unknown id was refused in an active context that has no focus list.
C6_Witness ==
    /\ call.op = "add_focus_entity"
    /\ call.args.entity_id = "ghost"
    /\ result = Bool(FALSE)
    /\ DOMAIN current_context # {}
    /\ ~HasFocusList(current_context)

\* C7: addFocusEntity on an id of the graph returns true; a call that finds
\* the id unlisted appends it once, a call that finds it listed leaves the
\* list (length and order) as it was; no id gains a second occurrence.
C7_AddFocusIdempotent ==
    [][(call'.op = "add_focus_entity" /\ call'.args.entity_id \in NodeSet(graph))
        => LET id == call'.args.entity_id
               before == CurrentFocus
               after == FocusOf(current_context', heap')
           IN  /\ result' = Bool(TRUE)
               /\ HasFocusList(current_context')
               /\ id \notin Range(before)
                    => after = Append(before, id) /\ Count(after, id) = 1
               /\ id \in Range(before) => after = before
               /\ \A x \in Ids : Count(after, x) <= Max2(Count(before, x), 1)]_vars

\* A listed id was added again: the list holds it once, after another id.
C7_Witness ==
    /\ call.op = "add_focus_entity"
    /\ result = Bool(TRUE)
    /\ calls >= 3
    /\ Len(CurrentFocus) = 2
    /\ CurrentFocus[1] = call.args.entity_id
    /\ Count(CurrentFocus, call.args.entity_id) = 1

\* C8: removeFocusEntity returns false and changes nothing when there is no
\* focus list or the id is not listed; otherwise it returns true, removes
\* exactly one occurrence (the rest keeps its order) and the id has no
\* cache entry afterwards.
C8_RemoveFocusOneOccurrence ==
    [][call'.op = "remove_focus_entity"
        => LET id == call'.args.entity_id
               before == CurrentFocus
               after == FocusOf(current_context', heap')
           IN  IF ~HasFocusList(current_context) \/ id \notin Range(before)
               THEN /\ result' = Bool(FALSE)
                    /\ UNCHANGED <<current_context, heap, entity_relevance_cache,
                                   context_history, last_context_change>>
               ELSE /\ result' = Bool(TRUE)
                    /\ \E i \in DOMAIN before :
                        before[i] = id /\ after = WithoutIndex(before, i)
                    /\ id \notin DOMAIN entity_relevance_cache'
                    /\ DOMAIN current_context' = DOMAIN current_context]_vars

\* One of two occurrences was removed: the id is still listed, after "ghost".
C8_Witness ==
    /\ call.op = "remove_focus_entity"
    /\ result = Bool(TRUE)
    /\ CurrentFocus = <<"ghost", call.args.entity_id>>

\* C9 as claimed: every id in the current focus list is an entity of the graph.
C9_FocusIdsInGraph ==
    \A id \in Range(CurrentFocus) : id \in NodeSet(graph)

\* C9 as amended: every id that addFocusEntity puts on the focus list is an
\* entity of the graph at that moment (lists given to setContext and
\* updateContext are installed unchecked).
C9_AddedFocusIdsInGraph ==
    [][call'.op = "add_focus_entity"
        => \A id \in Range(FocusOf(current_context', heap')) \ Range(CurrentFocus) :
              id \in NodeSet(graph) /\ id = call'.args.entity_id]_vars

\* An entity was added to a focus list in which setContext had put an id
\* unknown to the graph.
C9_Witness ==
    /\ call.op = "add_focus_entity"
    /\ result = Bool(TRUE)
    /\ "ghost" \in Range(CurrentFocus)
    /\ CurrentFocus[Len(CurrentFocus)] = call.args.entity_id
    /\ call.args.entity_id = "person1"

\* C10 as claimed: every getTaskRelevantEntities call appends exactly two
\* history entries.
C10_TwoEntriesPerTaskQuery ==
    [][call'.op = "get_task_relevant_entities"
        => Len(context_history') = Len(context_history) + 2]_vars

\* C10 as amended: the call appends two entries when a context was active
\* before it (the caller's context, then the task context) and one entry
\* (the task context) when none was active.
C10_EntriesPerTaskQuery ==
    [][call'.op = "get_task_relevant_entities"
        => LET n == Len(context_history)
               m == Len(context_history')
               task == context_history'[m].context
           IN  /\ m = n + (IF DOMAIN current_context # {} THEN 2 ELSE 1)
               /\ DOMAIN task = {"task", "keywords"}
               /\ task["task"] = call'.args.task_description
               /\ DOMAIN current_context # {}
                    => Deref(context_history'[m - 1].context, heap')
                            = Deref(current_context, heap)]_vars

\* Both cases have happened: one call without an active context, one with.
C10_Witness ==
    /\ call.op = "get_task_relevant_entities"
    /\ Len(context_history) = 3
    /\ DOMAIN context_history[2].context # {"task", "keywords"}

\* C11: when getTaskRelevantEntities has returned, the current context is
\* equal, key for key, to the context that was current before the call, and
\* the relevance cache holds no score computed under the task context.
C11_TaskQueryRestoresContext ==
    [][call'.op = "get_task_relevant_entities"
        => /\ Deref(current_context', heap') = Deref(current_context, heap)
           /\ entity_relevance_cache' = EmptyDict]_vars

\* The query has returned scores to a caller whose context has a focus
\* list and another key, after archiving that context and the task context.
C11_Witness ==
    /\ call.op = "get_task_relevant_entities"
    /\ result.scored # <<>>
    /\ DOMAIN current_context = {"focus_entities", "task"}
    /\ CurrentFocus = <<"software2">>
    /\ Len(context_history) = 2

\* C12: getContextSubgraph returns the empty graph when no context is
\* active; with an active context and max_nodes >= 0 it returns at most
\* max_nodes nodes, each of score >= threshold under the current context, and
\* no entity left out with score >= threshold scores strictly higher than a
\* selected one.
C12_SubgraphSelectsTopScores ==
    [][call'.op = "get_context_subgraph"
        => LET ret == result'.MultiDiGraph
               selected == Range(ret.nodes)
               max_nodes == call'.args.max_nodes
               threshold == call'.args.relevance_threshold
           IN  IF DOMAIN current_context = {} THEN ret = EmptyGraph
               ELSE max_nodes >= 0
                    => /\ Len(ret.nodes) <= max_nodes
                       /\ \A id \in selected : CurrentScore(id) >= threshold
                       /\ \A out \in NodeSet(graph) \ selected :
                            CurrentScore(out) >= threshold
                                => \A in \in selected :
                                      CurrentScore(out) <= CurrentScore(in)]_vars

\* C13: the graph getContextSubgraph returns has exactly the selected nodes
\* and exactly the relationships of the live graph whose two endpoints are
\* selected, each once with its key: parallel relationships and relationships
\* from a selected node to itself included, and no other.
C13_SubgraphIsInduced ==
    [][call'.op = "get_context_subgraph"
        => LET ret == result'.MultiDiGraph
               selected == Range(ret.nodes)
           IN  /\ selected \subseteq NodeSet(graph)
               /\ Range(ret.edges)
                    = {e \in Range(graph.edges) : e[1] \in selected /\ e[2] \in selected}
               /\ \A i, j \in DOMAIN ret.edges : ret.edges[i] = ret.edges[j] => i = j]_vars

\* C14: for an entity of the graph, max_nodes >= 1 and max_distance >= 0,
\* getEntityNeighborhood returns a graph that holds the centre entity and has
\* at most max_nodes nodes, with or without an active context.
C14_NeighborhoodWithinBudget ==
    [][(/\ call'.op = "get_entity_neighborhood"
        /\ call'.args.entity_id \in NodeSet(graph)
        /\ call'.args.max_nodes >= 1
        /\ call'.args.max_distance >= 0)
        => LET nodes == result'.MultiDiGraph.nodes
           IN  /\ call'.args.entity_id \in Range(nodes)
               /\ Len(nodes) <= call'.args.max_nodes]_vars

\* C15: getEntityNeighborhood returns the empty graph for an absent entity;
\* otherwise every node returned is within max_distance hops of the entity,
\* relationships followed in either direction, and the relationships returned
\* are exactly those of the graph between returned nodes.
C15_NeighborhoodWithinDistance ==
    [][call'.op = "get_entity_neighborhood"
        => LET ret == result'.MultiDiGraph
               nodes == Range(ret.nodes)
               entity_id == call'.args.entity_id
           IN  IF entity_id \notin NodeSet(graph) THEN ret = EmptyGraph
               ELSE /\ \A n \in nodes :
                        HopDistance(graph, {entity_id}, n) \in 0..call'.args.max_distance
                    /\ Range(ret.edges)
                         = {e \in Range(graph.edges) : e[1] \in nodes /\ e[2] \in nodes}
                    /\ \A i, j \in DOMAIN ret.edges :
                         ret.edges[i] = ret.edges[j] => i = j]_vars

\* One hop around person1 under an active context: person1 and task3 with
\* the two relationships between them and the one from task3 to itself;
\* software2, two hops away, is not returned.
C15_Witness ==
    /\ call.op = "get_entity_neighborhood"
    /\ call.args.entity_id = "person1"
    /\ DOMAIN current_context # {}
    /\ result.MultiDiGraph.nodes = <<"person1", "task3">>
    /\ Len(result.MultiDiGraph.edges) = 3

\* The entities a directed walk of at most k relationships reaches from S.
RECURSIVE DirectedBall(_, _, _)
DirectedBall(g, S, k) ==
    IF k <= 0 THEN S
    ELSE LET B == DirectedBall(g, S, k - 1)
         IN  B \cup UNION {successors(g, n) : n \in B}

\* C16: findPathsByContext returns the empty sequence when an endpoint is
\* absent from the graph, and when both are present but no path of at most
\* max_length relationships leads from source to target, whatever the ids.
C16_NoPathGivesEmpty ==
    [][call'.op = "find_paths_by_context"
        => LET source == call'.args.source_id
               target == call'.args.target_id
               max_length == call'.args.max_length
           IN  (\/ source \notin NodeSet(graph)
                \/ target \notin NodeSet(graph)
                \/ max_length < 0
                \/ target \notin DirectedBall(graph, {source}, max_length))
                   => result'.paths = <<>>]_vars

\* C17: every path findPathsByContext returns leads from source to target
\* along relationships of the graph, repeats no entity and has at most
\* max_length relationships; at most max_paths paths are returned when
\* max_paths >= 0.
C17_PathsAreSimpleAndBounded ==
    [][call'.op = "find_paths_by_context"
        => LET paths == result'.paths
               a == call'.args
           IN  /\ \A i \in DOMAIN paths :
                    LET path == paths[i]
                    IN  /\ path # <<>>
                        /\ path[1] = a.source_id
                        /\ path[Len(path)] = a.target_id
                        /\ \A j, k \in DOMAIN path : path[j] = path[k] => j = k
                        /\ \A j \in 1..(Len(path) - 1) :
                             \E e \in Range(graph.edges) :
                                e[1] = path[j] /\ e[2] = path[j + 1]
                        /\ Len(path) - 1 <= a.max_length
               /\ a.max_paths >= 0 => Len(paths) <= a.max_paths]_vars

\* C18: when both entities exist and a relationship leads from a to b,
\* findPathsByContext(a, b, ...) returns exactly [[a, b]], whatever the
\* context, the other paths, max_paths and max_length.
C18_DirectRelationshipShortCircuits ==
    [][(/\ call'.op = "find_paths_by_context"
        /\ \E e \in Range(graph.edges) :
              e[1] = call'.args.source_id /\ e[2] = call'.args.target_id)
        => result'.paths = << <<call'.args.source_id, call'.args.target_id>> >>]_vars

\* Asked with max_paths = 0 and max_length = 0 under an active context with
\* person1 in focus, the direct pair person1, task3 is still returned.
C18_Witness ==
    /\ call.op = "find_paths_by_context"
    /\ call.args.max_paths = 0
    /\ call.args.max_length = 0
    /\ result.paths = << <<"person1", "task3">> >>
    /\ "person1" \in Range(CurrentFocus)

\* C19 as claimed: for every entity s of the graph findPathsByContext(s, s, ...)
\* returns [[s]].
C19_SamePairGivesSingleNode ==
    [][(/\ call'.op = "find_paths_by_context"
        /\ call'.args.source_id = call'.args.target_id
        /\ call'.args.source_id \in NodeSet(graph))
        => result'.paths = << <<call'.args.source_id>> >>]_vars

\* C19 as amended: for an entity s of the graph findPathsByContext(s, s, ...)
\* returns [[s]] when no relationship leads from s to itself, and [[s, s]]
\* when one does.
C19_SamePairUnlessSelfRelationship ==
    [][(/\ call'.op = "find_paths_by_context"
        /\ call'.args.source_id = call'.args.target_id
        /\ call'.args.source_id \in NodeSet(graph))
        => LET s == call'.args.source_id
           IN  IF \E e \in Range(graph.edges) : e[1] = s /\ e[2] = s
               THEN result'.paths = << <<s, s>> >>
               ELSE result'.paths = << <<s>> >>]_vars

\* person1, which has no relationship to itself, was asked for under an
\* active context and came back as the one-node path.
C19_Witness ==
    /\ call.op = "find_paths_by_context"
    /\ call.args.source_id = "person1"
    /\ call.args.target_id = "person1"
    /\ result.paths = << <<"person1">> >>
    /\ DOMAIN current_context # {}

\* C20: the relevance score of an entity is 0 whenever no context is active
\* or the id is not in the graph, and _score_all_entities under no active
\* context maps every entity to 0.
C20_NoContextScoresZero ==
    /\ \A id \in Ids :
          (~ContextActive(current_context) \/ id \notin NodeSet(graph))
              => CurrentScore(id) = 0
    /\ (call.op = "score_all_entities" /\ ~ContextActive(current_context))
          => /\ DOMAIN result.dict = NodeSet(graph)
             /\ \A id \in DOMAIN result.dict : result.dict[id] = 0

\* After a context had been active and was replaced by the empty one,
\* _score_all_entities returned 0 for all three entities.
C20_Witness ==
    /\ call.op = "score_all_entities"
    /\ ~ContextActive(current_context)
    /\ context_history # <<>>
    /\ DOMAIN result.dict = {"person1", "task3", "software2"}
    /\ \A id \in DOMAIN result.dict : result.dict[id] = 0

\* C21: can_access returns the override stored for (user_id, operation) when
\* there is one, whatever the role; otherwise the rule stored for
\* (operation, role), the role being viewer when the caller names none;
\* otherwise false.  So after set_user_operation_permission(op, u, v) the
\* answer for user u and op is v.
C21_OverrideThenRoleThenDeny ==
    call.op = "can_access"
        => LET user_context == call.args.user_context
               operation == call.args.operation
               users == Get(acl_store, "users", EmptyDict)
               operations == Get(acl_store, "operations", EmptyDict)
               role == Get(user_context, "role", "viewer")
               override == /\ "user_id" \in DOMAIN user_context
                           /\ user_context["user_id"] \in DOMAIN users
                           /\ operation \in DOMAIN users[user_context["user_id"]]
           IN  result = Bool(IF override
                             THEN users[user_context["user_id"]][operation]
                             ELSE IF /\ operation \in DOMAIN operations
                                     /\ role \in DOMAIN operations[operation]["roles"]
                                  THEN operations[operation]["roles"][role]
                                  ELSE FALSE)

\* C22: can_access_entity_type and can_access_relationship_type return the
\* entry stored for the user under the type when there is one, else the entry
\* stored for the role (viewer when the caller names none), else true.
C22_TypeAccessDefaultsToAllow ==
    call.op \in {"can_access_entity_type", "can_access_relationship_type"}
        => LET user_context == call.args.user_context
               permissions ==
                   IF call.op = "can_access_entity_type"
                   THEN Get(Get(acl_store, "entity_types", EmptyDict),
                            call.args.entity_type, EmptyDict)
                   ELSE Get(Get(acl_store, "relationship_types", EmptyDict),
                            call.args.relationship_type, EmptyDict)
               users == Get(permissions, "users", EmptyDict)
               roles == Get(permissions, "roles", EmptyDict)
               role == Get(user_context, "role", "viewer")
           IN  result = Bool(IF /\ "user_id" \in DOMAIN user_context
                                /\ user_context["user_id"] \in DOMAIN users
                             THEN users[user_context["user_id"]]
                             ELSE IF role \in DOMAIN roles THEN roles[role]
                             ELSE TRUE)

DefaultRoles == {"admin", "editor", "viewer"}

\* The operations the store read from the file has an entry for: none when
\* the file is missing or cannot be read or parsed.
LoadedOperations(file) ==
    IF file.exists /\ file.readable /\ file.well_formed
    THEN DOMAIN Get(file.content, "operations", EmptyDict)
    ELSE {}

\* A provider has just been constructed and no other call was made.
JustConstructed == call.op = "__init__" /\ calls = 0 /\ result = None

\* C23 as claimed: right after construction, whatever the file held,
\* can_access of a caller without user id equals the default matrix for each
\* of the three roles and the seven operations.
C23_DefaultMatrixAfterInit ==
    JustConstructed
        => \A role \in DefaultRoles, operation \in DefaultOperationNames :
              can_access(acl_store, Dict1("role", role), operation)
                  = default_operations[operation]["roles"][role]

\* C23 as amended: right after construction can_access of a caller without
\* user id equals the default matrix for each of the three roles and each of
\* the seven operations the loaded store had no entry for, and an entry the
\* loaded store had is kept as it was loaded.
C23_DefaultMatrixWhereNothingLoaded ==
    JustConstructed
        => /\ \A role \in DefaultRoles :
                \A operation \in DefaultOperationNames \ LoadedOperations(call.args) :
                    can_access(acl_store, Dict1("role", role), operation)
                        = default_operations[operation]["roles"][role]
           /\ \A operation \in LoadedOperations(call.args) :
                acl_store["operations"][operation]
                    = call.args.content["operations"][operation]

\* Construction on a saved store with an entry for write_entity alone: a
\* viewer may write entities as the file says, and may read them as the
\* default matrix says.
C23_Witness ==
    /\ JustConstructed
    /\ LoadedOperations(call.args) = {"write_entity"}
    /\ can_access(acl_store, Dict1("role", "viewer"), "write_entity")
    /\ can_access(acl_store, Dict1("role", "viewer"), "read_entity")
    /\ ~can_access(acl_store, Dict1("role", "viewer"), "delete_entity")

\* C24: a failure to read, parse or write the ACL file never leaves the
\* constructor or a permission setter as an exception, and the provider has
\* the default permissions in place afterwards.
C24_PersistenceFailureContained ==
    /\ result # Raised
    /\ DefaultOperationNames \subseteq DOMAIN Get(acl_store, "operations", EmptyDict)

\* C25: a call of get_context_subgraph, get_entity_neighborhood or
\* find_paths_by_context with a negative max_nodes, max_paths or max_length
\* ends in the outcome InvalidArgument and leaves context, cache and history
\* as they were.
C25_NegativeBudgetRejected ==
    [][(/\ call'.op \in {"get_context_subgraph", "get_entity_neighborhood",
                         "find_paths_by_context"}
        /\ \E k \in DOMAIN call'.args \cap {"max_nodes", "max_paths", "max_length"} :
              call'.args[k] < 0)
        => /\ DOMAIN result' = {"InvalidArgument"}
           /\ UNCHANGED <<current_context, heap, entity_relevance_cache,
                          context_history>>]_vars

\* C26: _score_all_entities returns a dict whose keys are exactly the
\* entities of the graph; an entity with a cache entry gets that entry, any
\* other gets its freshly computed score; afterwards the cache holds, for
\* every entity of the graph, the value returned.
C26_ScoreAllReusesAndFillsCache ==
    [][call'.op = "score_all_entities"
        => /\ DOMAIN result'.dict = NodeSet(graph)
           /\ \A id \in NodeSet(graph) :
                /\ result'.dict[id] =
                       IF id \in DOMAIN entity_relevance_cache
                       THEN entity_relevance_cache[id]
                       ELSE CurrentScore(id)
                /\ id \in DOMAIN entity_relevance_cache'
                /\ entity_relevance_cache'[id] = result'.dict[id]]_vars

\* _score_all_entities returned, for some entity, a cached score that a
\* fresh computation would no longer give: the entry was reused.
C26_Witness ==
    /\ call.op = "score_all_entities"
    /\ DOMAIN result.dict = NodeSet(graph)
    /\ \E id \in NodeSet(graph) :
          /\ result.dict[id] # CurrentScore(id)
          /\ entity_relevance_cache[id] = result.dict[id]

\* The least number of relationships of a directed walk from source to
\* target, -1 when there is none.
DirectedDistance(g, source, target) ==
    IF target \notin DirectedBall(g, {source}, Len(g.nodes)) THEN -1
    ELSE CHOOSE k \in 0..Len(g.nodes) :
            /\ target \in DirectedBall(g, {source}, k)
            /\ \A j \in 0..(k - 1) : target \notin DirectedBall(g, {source}, j)

\* C27: for distinct entities of the graph not joined by a direct
\* relationship, every path find_paths_by_context returns has as many
\* relationships as the shortest directed walk from source to target, and
\* nx.shortest_path is accepted only for a pair the enumeration with
\* increasing cutoff had found a path for.
C27_ReturnedPathsAreShortest ==
    [][(/\ call'.op = "find_paths_by_context"
        /\ call'.args.source_id # call'.args.target_id
        /\ call'.args.source_id \in NodeSet(graph)
        /\ call'.args.target_id \in NodeSet(graph)
        /\ ~has_edge(graph, call'.args.source_id, call'.args.target_id))
        => LET a == call'.args
               found == SearchPaths(create_context_weighted_graph(graph, Self),
                                    a.source_id, a.target_id, 2, a.max_length)
           IN  /\ \A i \in DOMAIN result'.paths :
                    Len(result'.paths[i]) - 1
                        = DirectedDistance(graph, a.source_id, a.target_id)
               /\ \A shortest_path \in ShortestPaths(graph, a.source_id, a.target_id) :
                    (shortest_path # <<>> /\ Len(shortest_path) <= a.max_length + 1)
                        => found # <<>>]_vars

====
